---- MODULE Spec2Model ----
(***************************************************************************)
(* Verification model of the Advent of Code 2020 solutions.  Every puzzle   *)
(* is an independent program, so the module holds one state machine per     *)
(* program: each has its own variable and its own specification; the        *)
(* variables of the programs a specification does not run stay idle.        *)
(*                                                                          *)
(*   day23.rs  CupGame      game,  game_log      SpecCups                   *)
(*   day22.rs  SpaceCards   cards, cards_log     SpecCards                  *)
(*   day19.rs  SmartRegexMatcher  matcher, matcher_log                      *)
(*                                               SpecRegex, SpecRegexLoops  *)
(*   day20.rs  Tile         tile,  tile_log      SpecTile                   *)
(*   day18.rs  Expression   expr,  expr_run      SpecExpr                   *)
(*   day12.rs  ShipNav      ship,  ship_run      SpecShip                   *)
(*   day20.rs  AssembledPuzzle  puzzle, puzzle_log  SpecPuzzle              *)
(*   day20.rs  AssembledImage   image, image_log    SpecImage               *)
(***************************************************************************)
EXTENDS Integers, Sequences, FiniteSets, TLC

VARIABLES
    game,       \* day23: the CupGame object (size, curr, cups)
    game_log,   \* day23: the starting cups handed to new, and the steps made
    cards,      \* day22: the call stack of SpaceCards games, innermost last
    cards_log,  \* day22: the rules in use, and per game its starting decks
                \*        and the configurations its rounds started from
    matcher,    \* day19: the SmartRegexMatcher object
    matcher_log,\* day19: the messages to count, and the results of eval so far
    tile,       \* day20: a Tile object (id, len, grid, times_reoriented)
    tile_log,   \* day20: the grid Tile::new was given, and the number of
                \*        rotate and reflect calls made besides reorient
    expr,       \* day18: an Expression object (tokens)
    expr_run,   \* day18: the locals of a running eval_part1 or eval_part2,
                \*        the position of its loop, and how it ended
    ship,       \* day12: a ShipNav object (waypoint, x, y)
    ship_run,   \* day12: the input of a running solve_part1 or solve_part2,
                \*        the position of its loop, and what it returned
    puzzle,     \* day20: the UnsortedPuzzle and SortedPuzzle given to
                \*        AssembledPuzzle::new, and the locals of its loops
    puzzle_log, \* day20: the tile list the puzzles were made of, and the
                \*        reorient calls of the assemble_tile calls
    image,      \* day20: an AssembledImage object (a Tile), and the locals
                \*        and the position of find_seamonster_orientation
    image_log   \* day20: the grid the image had when the while loop ended,
                \*        and the reorient calls of the while loop

vars == <<game, game_log, cards, cards_log, matcher, matcher_log,
          tile, tile_log, expr, expr_run, ship, ship_run,
          puzzle, puzzle_log, image, image_log>>

Idle == "idle"

cupVars == <<game, game_log>>

cardVars == <<cards, cards_log>>

matcherVars == <<matcher, matcher_log>>

tileVars == <<tile, tile_log>>

exprVars == <<expr, expr_run>>

shipVars == <<ship, ship_run>>

puzzleVars == <<puzzle, puzzle_log>>

imageVars == <<image, image_log>>

\* The programs other than p have not been started, and stay so.
OthersIdle(p) ==
    /\ IF p = "cups" THEN TRUE ELSE game = Idle /\ game_log = Idle
    /\ IF p = "cards" THEN TRUE ELSE cards = Idle /\ cards_log = Idle
    /\ IF p = "matcher" THEN TRUE ELSE matcher = Idle /\ matcher_log = Idle
    /\ IF p = "tile" THEN TRUE ELSE tile = Idle /\ tile_log = Idle
    /\ IF p = "expr" THEN TRUE ELSE expr = Idle /\ expr_run = Idle
    /\ IF p = "ship" THEN TRUE ELSE ship = Idle /\ ship_run = Idle
    /\ IF p = "puzzle" THEN TRUE ELSE puzzle = Idle /\ puzzle_log = Idle
    /\ IF p = "image" THEN TRUE ELSE image = Idle /\ image_log = Idle

OthersUnchanged(p) ==
    /\ IF p = "cups" THEN TRUE ELSE UNCHANGED cupVars
    /\ IF p = "cards" THEN TRUE ELSE UNCHANGED cardVars
    /\ IF p = "matcher" THEN TRUE ELSE UNCHANGED matcherVars
    /\ IF p = "tile" THEN TRUE ELSE UNCHANGED tileVars
    /\ IF p = "expr" THEN TRUE ELSE UNCHANGED exprVars
    /\ IF p = "ship" THEN TRUE ELSE UNCHANGED shipVars
    /\ IF p = "puzzle" THEN TRUE ELSE UNCHANGED puzzleVars
    /\ IF p = "image" THEN TRUE ELSE UNCHANGED imageVars

(***************************************************************************)
(* Generic helpers.                                                         *)
(***************************************************************************)

\* All sequences over the set S that use every element exactly once.
Perms(S) ==
    { p \in [1..Cardinality(S) -> S] : \A x \in S : \E i \in DOMAIN p : p[i] = x }

Range(s) == { s[i] : i \in DOMAIN s }

(***************************************************************************)
(* day23.rs: the crab's cup game.                                           *)
(***************************************************************************)

MinCups == 5
MaxCups == 6
MaxSteps == 10

\* The starting position of tests::test_game.
ExampleCups == <<3, 8, 9, 1, 2, 5, 4, 6, 7>>

wrap_inc(id, n) == (id + 1) % n

wrap_dec(id, n) == (id + n - 1) % n

\* iter::successors(Some(start), |i| cups[i].fwd).take(count), as a sequence.
RECURSIVE FollowFwd(_, _, _)
FollowFwd(cups, start, count) ==
    IF count = 0 THEN <<>>
    ELSE <<start>> \o FollowFwd(cups, cups[start].fwd, count - 1)

cups_clockwise_from(g, start) == FollowFwd(g.cups, start, g.size)

cups_clockwise(g) == cups_clockwise_from(g, g.curr)

RECURSIVE FollowDown(_, _, _)
FollowDown(start, n, count) ==
    IF count = 0 THEN <<>>
    ELSE <<start>> \o FollowDown(wrap_dec(start, n), n, count - 1)

cups_downward_from(g, start) == FollowDown(start, g.size, g.size)

\* util::unique_0_to_n over a sequence: no repeats, and max + 1 = count.
unique_0_to_n(s) ==
    /\ \A i, j \in DOMAIN s : i # j => s[i] # s[j]
    /\ IF s = <<>> THEN TRUE
       ELSE (CHOOSE h \in Range(s) : \A x \in Range(s) : x <= h) + 1
                = Cardinality(Range(s))

\* CupGame::check_invariant: TRUE when none of its assertions fails.
check_invariant(g) ==
    /\ DOMAIN g.cups = 0..(g.size - 1)
    /\ g.curr < g.size
    /\ \A i \in DOMAIN g.cups :
          /\ g.cups[i].n = g.size
          /\ g.cups[i].id = i
          /\ g.cups[i].fwd \in DOMAIN g.cups
          /\ g.cups[i].bck \in DOMAIN g.cups
          /\ g.cups[g.cups[i].fwd].bck = i
          /\ g.cups[g.cups[i].bck].fwd = i
    /\ Len(cups_clockwise(g)) = g.size
    /\ unique_0_to_n(cups_clockwise(g))
    /\ unique_0_to_n([i \in 1..g.size |-> g.cups[i - 1].fwd])
    /\ unique_0_to_n([i \in 1..g.size |-> g.cups[i - 1].bck])

\* The second loop of CupGame::new, from index i on (starting_cups is
\* 1-indexed here, 0-indexed in the source).
RECURSIVE NewLink(_, _, _, _)
NewLink(cups, starting_cups, size, i) ==
    IF i = size THEN cups
    ELSE LET prev == starting_cups[wrap_dec(i, size) + 1] - 1
             this == starting_cups[i + 1] - 1
             next == starting_cups[wrap_inc(i, size) + 1] - 1
         IN  NewLink([cups EXCEPT ![this].fwd = next, ![this].bck = prev],
                     starting_cups, size, i + 1)

CupGame_new(starting_cups) ==
    LET size == Len(starting_cups)
        placeholder == [i \in 0..(size - 1) |->
                           [n |-> size, id |-> i, fwd |-> size, bck |-> size]]
    IN  [size |-> size,
         curr |-> starting_cups[1] - 1,
         cups |-> NewLink(placeholder, starting_cups, size, 0)]

\* Cup::display is the digit id + 1; CupGame::display lists them clockwise.
display(g) ==
    LET c == cups_clockwise(g) IN [i \in DOMAIN c |-> c[i] + 1]

\* The destination slot of step: the first cup downward from curr that is
\* none of cup0..cup3.
StepDestOmitTaken(g, taken) ==
    LET down == cups_downward_from(g, g.curr)
        first == CHOOSE i \in DOMAIN down :
                    /\ down[i] # g.curr
                    /\ \A k \in 1..(i - 1) : down[k] = g.curr
    IN  down[first]

StepDest(g, taken) ==
    LET down == cups_downward_from(g, g.curr)
        first == CHOOSE i \in DOMAIN down :
                    /\ down[i] \notin taken
                    /\ \A k \in 1..(i - 1) : down[k] \in taken
    IN  down[first]

\* The six pointer assignments of step, in the order the source makes them.
StepRelinkNoBck(g, cup0, cup1, cup3, cup4, dest) ==
    LET dest_next == g.cups[dest].fwd
        a1 == [g.cups EXCEPT ![cup0].fwd = cup4]
        a3 == [a1 EXCEPT ![dest].fwd = cup1]
        a4 == [a3 EXCEPT ![cup1].bck = dest]
        a5 == [a4 EXCEPT ![cup3].fwd = dest_next]
        a6 == [a5 EXCEPT ![dest_next].bck = cup3]
    IN  a6

StepRelink(g, cup0, cup1, cup3, cup4, dest) ==
    LET dest_next == g.cups[dest].fwd
        a1 == [g.cups EXCEPT ![cup0].fwd = cup4]
        a2 == [a1 EXCEPT ![cup4].bck = cup0]
        a3 == [a2 EXCEPT ![dest].fwd = cup1]
        a4 == [a3 EXCEPT ![cup1].bck = dest]
        a5 == [a4 EXCEPT ![cup3].fwd = dest_next]
        a6 == [a5 EXCEPT ![dest_next].bck = cup3]
    IN  a6

CupGame_step(g) ==
    LET it == cups_clockwise(g)
        cup0 == it[1]
        cup1 == it[2]
        cup2 == it[3]
        cup3 == it[4]
        cup4 == it[5]
        dest == StepDest(g, {cup0, cup1, cup2, cup3})
    IN  [g EXCEPT !.cups = StepRelink(g, cup0, cup1, cup3, cup4, dest),
                  !.curr = cup4]

StartingCups ==
    UNION { Perms(1..n) : n \in MinCups..MaxCups } \cup {ExampleCups}

InitCups ==
    /\ OthersIdle("cups")
    /\ \E starting_cups \in StartingCups :
          /\ game = CupGame_new(starting_cups)
          /\ game_log = [start |-> starting_cups, steps |-> 0]

Step ==
    /\ game_log.steps < MaxSteps
    /\ game' = CupGame_step(game)
    /\ game_log' = [game_log EXCEPT !.steps = @ + 1]
    /\ OthersUnchanged("cups")

NextCups == Step

SpecCups == InitCups /\ [][NextCups]_vars

(***************************************************************************)
(* C1, C2: claims about the cup game.                                       *)
(***************************************************************************)

\* One move of the puzzle's crab on the clockwise list of labels d, whose
\* head is the current cup: the reference the code is compared with.
RECURSIVE CrabDest(_, _, _)
CrabDest(label, n, picked) ==
    LET below == IF label = 1 THEN n ELSE label - 1
    IN  IF below \in picked THEN CrabDest(below, n, picked) ELSE below

CrabMove(d) ==
    LET n == Len(d)
        picked == SubSeq(d, 2, 4)
        rest == <<d[1]>> \o SubSeq(d, 5, n)
        dest == CrabDest(d[1], n, Range(picked))
        at == CHOOSE i \in DOMAIN rest : rest[i] = dest
        circle == SubSeq(rest, 1, at) \o picked \o SubSeq(rest, at + 1, Len(rest))
    IN  SubSeq(circle, 2, n) \o <<circle[1]>>

\* C1: every step is one crab move on the displayed circle, and from
\* 3,8,9,1,2,5,4,6,7 the display is 289154673 after 1 step, 546789132 after
\* 2 steps and 837419265 after 10 steps.
C1_StepIsCrabMove ==
    /\ [][display(game') = CrabMove(display(game))]_vars
    /\ [](game_log.start = ExampleCups =>
            /\ game_log.steps = 0 => display(game) = <<3, 8, 9, 1, 2, 5, 4, 6, 7>>
            /\ game_log.steps = 1 => display(game) = <<2, 8, 9, 1, 5, 4, 6, 7, 3>>
            /\ game_log.steps = 2 => display(game) = <<5, 4, 6, 7, 8, 9, 1, 3, 2>>
            /\ game_log.steps = 10 => display(game) = <<8, 3, 7, 4, 1, 9, 2, 6, 5>>)

\* The example has run its 10 steps.
C1_Witness ==
    /\ game_log.start = ExampleCups
    /\ game_log.steps = 10
    /\ display(game) = <<8, 3, 7, 4, 1, 9, 2, 6, 5>>

\* C2: check_invariant holds after new and after any number of steps.
C2_InvariantHolds == check_invariant(game)

C2_Witness ==
    /\ game_log.steps = MaxSteps
    /\ game.size = MinCups
    /\ check_invariant(game)

(***************************************************************************)
(* day22.rs: the SpaceCards game (Combat and Recursive Combat).             *)
(*                                                                          *)
(* part2_step calls part2_execute of a sub-game in the middle of a round,   *)
(* so the state is the call stack: every entry is a SpaceCards object       *)
(* together with the cards c1, c2 its suspended part2_step holds.  Only the *)
(* innermost game runs.                                                     *)
(***************************************************************************)

MaxCard == 5

None == "None"
One == "One"
Two == "Two"

\* SpaceCards::new; Card(i) wraps the number i.
SpaceCards_new(start_deck1, start_deck2) ==
    [deck1 |-> start_deck1, deck2 |-> start_deck2,
     winner |-> None, seen_hashes |-> {}]

\* SpaceCards::debug_checks with verify_all_cards_present: the cards are
\* 1..n, each once (unique_1_to_n); without it: positive and distinct.
debug_checks(start_deck1, start_deck2, verify_all_cards_present) ==
    LET all_cards == start_deck1 \o start_deck2
        distinct == /\ \A i \in DOMAIN all_cards : all_cards[i] # 0
                    /\ \A i, j \in DOMAIN all_cards :
                          i # j => all_cards[i] # all_cards[j]
    IN  IF verify_all_cards_present
        THEN distinct /\ Range(all_cards) = 1..Len(all_cards)
        ELSE distinct

\* The end of a round: the winner's deck gets the winner's card, then the
\* loser's card.
PushBackLosing(g, round_winner, c1, c2) ==
    IF round_winner = One
    THEN [g EXCEPT !.deck1 = Append(Append(@, c1), c2)]
    ELSE [g EXCEPT !.deck2 = Append(@, c2)]

PushBack(g, round_winner, c1, c2) ==
    IF round_winner = One
    THEN [g EXCEPT !.deck1 = Append(Append(@, c1), c2)]
    ELSE [g EXCEPT !.deck2 = Append(Append(@, c2), c1)]

\* c1.cmp(&c2); Ordering::Equal is unreachable, the cards being distinct.
HigherCard(c1, c2) == IF c1 > c2 THEN One ELSE Two

part1_step(g) ==
    IF g.deck1 = <<>> THEN [g EXCEPT !.winner = Two]
    ELSE IF g.deck2 = <<>> THEN [g EXCEPT !.winner = One]
    ELSE LET c1 == Head(g.deck1)
             c2 == Head(g.deck2)
             drawn == [g EXCEPT !.deck1 = Tail(@), !.deck2 = Tail(@)]
         IN  PushBack(drawn, HigherCard(c1, c2), c1, c2)

\* The configuration a hash stands for: DefaultHasher over deck1 then deck2,
\* taken as collision-free.
state_hash(g) == <<g.deck1, g.deck2>>

top_cards(deck, n) == SubSeq(deck, 1, n)

\* What part2_step inserts into seen_hashes: the hash taken on entry.
RecordedAfterDraw(g) ==
    IF g.deck1 = <<>> \/ g.deck2 = <<>> THEN state_hash(g)
    ELSE state_hash([g EXCEPT !.deck1 = Tail(@), !.deck2 = Tail(@)])

Recorded(g) == state_hash(g)

Frame(g, drawn) == [game |-> g, drawn |-> drawn]

\* part2_step of the innermost game of the call stack st, up to its return
\* or up to its call of rec_game.part2_execute().
part2_step(st) ==
    LET d == Len(st)
        g == st[d].game
        state == state_hash(g)
    IN  IF state \in g.seen_hashes
        THEN [st EXCEPT ![d].game.winner = One]
        ELSE
        LET c1 == Head(g.deck1)
            c2 == Head(g.deck2)
            seen == g.seen_hashes \cup {Recorded(g)}
            g1 == [g EXCEPT !.seen_hashes = seen]
            drawn == [g1 EXCEPT !.deck1 = Tail(@), !.deck2 = Tail(@)]
        IN  IF g1.deck1 = <<>> THEN [st EXCEPT ![d].game.winner = Two,
                                                 ![d].game.seen_hashes = seen]
            ELSE IF g1.deck2 = <<>> THEN [st EXCEPT ![d].game.winner = One,
                                                      ![d].game.seen_hashes = seen]
            ELSE IF Len(drawn.deck1) >= c1 /\ Len(drawn.deck2) >= c2
            THEN LET new_deck1 == top_cards(drawn.deck1, c1)
                     new_deck2 == top_cards(drawn.deck2, c2)
                     rec_game == SpaceCards_new(new_deck1, new_deck2)
                 IN  Append([st EXCEPT ![d] = Frame(drawn, <<c1, c2>>)],
                            Frame(rec_game, <<>>))
            ELSE [st EXCEPT ![d] =
                     Frame(PushBack(drawn, HigherCard(c1, c2), c1, c2), <<>>)]

\* rec_game.part2_execute() returns its winner into the suspended
\* part2_step, which pushes the cards back and returns true.
part2_return(st) ==
    LET d == Len(st)
        round_winner == st[d].game.winner
        caller == st[d - 1]
    IN  Append(SubSeq(st, 1, d - 2),
               Frame(PushBack(caller.game, round_winner,
                              caller.drawn[1], caller.drawn[2]), <<>>))

\* The decks main hands to SpaceCards::new(.., true): the cards 1..n in any
\* order, cut anywhere.
StartingDecks ==
    UNION { { <<SubSeq(p, 1, k), SubSeq(p, k + 1, Len(p))>> : k \in 0..Len(p) } :
              p \in UNION { Perms(1..n) : n \in 1..MaxCard } }

LogEntry(deck1, deck2) ==
    [start1 |-> deck1, start2 |-> deck2, rounds |-> {}, sub_games |-> 0]

InitCards ==
    /\ OthersIdle("cards")
    /\ \E decks \in StartingDecks, part \in {1, 2} :
          /\ debug_checks(decks[1], decks[2], TRUE)
          /\ cards = <<Frame(SpaceCards_new(decks[1], decks[2]), <<>>)>>
          /\ cards_log = [part |-> part,
                          games |-> <<LogEntry(decks[1], decks[2])>>]

\* part1_execute: part1_step as long as it returns true.
Part1Step ==
    /\ cards_log.part = 1
    /\ cards[1].game.winner = None
    /\ cards' = <<Frame(part1_step(cards[1].game), <<>>)>>
    /\ UNCHANGED cards_log
    /\ OthersUnchanged("cards")

\* part2_execute of the innermost game: part2_step as long as it returns true.
Part2Step ==
    LET d == Len(cards) IN
    /\ cards_log.part = 2
    /\ cards[d].game.winner = None
    /\ cards' = part2_step(cards)
    /\ cards_log' =
          LET noted == [cards_log.games EXCEPT
                           ![d].rounds = @ \cup {<<cards[d].game.deck1,
                                                    cards[d].game.deck2>>}]
          IN  [cards_log EXCEPT !.games =
                  IF Len(cards') > d
                  THEN Append(noted, LogEntry(cards'[d + 1].game.deck1,
                                              cards'[d + 1].game.deck2))
                  ELSE noted]
    /\ OthersUnchanged("cards")

Part2Return ==
    LET d == Len(cards) IN
    /\ cards_log.part = 2
    /\ d > 1
    /\ cards[d].game.winner # None
    /\ cards' = part2_return(cards)
    /\ cards_log' = [cards_log EXCEPT !.games =
                        [SubSeq(@, 1, d - 1) EXCEPT ![d - 1].sub_games = @ + 1]]
    /\ OthersUnchanged("cards")

NextCards == Part1Step \/ Part2Step \/ Part2Return

SpecCards == InitCards /\ [][NextCards]_vars

(***************************************************************************)
(* C3, C4: claims about SpaceCards.                                         *)
(***************************************************************************)

NoRepeats(s) == \A i, j \in DOMAIN s : i # j => s[i] # s[j]

\* The cards of a game (its decks, and the two cards a suspended part2_step
\* holds) are the cards it started with, each once.
Conserved(frame, entry) ==
    LET held == frame.game.deck1 \o frame.game.deck2 \o frame.drawn
        start == entry.start1 \o entry.start2
    IN  /\ Len(held) = Len(start)
        /\ Range(held) = Range(start)
        /\ NoRepeats(held)

\* C3: between steps the two decks of every game hold exactly its starting
\* cards, each once, and a running sub-game leaves the games below it on the
\* call stack as they are: when it returns, its caller's decks are the decks
\* the caller had at the call, with the two drawn cards put back.
C3_CardsConserved ==
    /\ [](\A d \in DOMAIN cards :
            /\ Conserved(cards[d], cards_log.games[d])
            /\ d = Len(cards) => cards[d].drawn = <<>>)
    /\ [][/\ \A d \in DOMAIN cards :
                d < Len(cards) /\ d < Len(cards') => cards'[d] = cards[d]
          /\ Len(cards') < Len(cards) =>
                LET was == cards[Len(cards')].game
                    now == cards'[Len(cards')].game
                IN  /\ SubSeq(now.deck1, 1, Len(was.deck1)) = was.deck1
                    /\ SubSeq(now.deck2, 1, Len(was.deck2)) = was.deck2
                    /\ Range(now.deck1 \o now.deck2) =
                          Range(was.deck1 \o was.deck2)
                              \cup Range(cards[Len(cards')].drawn)]_vars

\* A game of part 2 has ended after a round of it was decided by a sub-game,
\* and a game of part 1 has ended, with all cards in the winner's deck.
C3_Witness ==
    /\ Len(cards) = 1
    /\ cards[1].game.winner = Two
    /\ cards[1].game.deck1 = <<>>
    /\ Len(cards[1].game.deck2) = MaxCard
    /\ cards_log.part = 2 /\ cards_log.games[1].sub_games >= 1

MAX_ID == 200
MaxRules == 3
MaxMsgLen == 3
MaxLoopRules == 5
MaxLoopMsgLen == 1

Alphabet == {"a", "b"}

Strings(n) == UNION { [1..k -> Alphabet] : k \in 0..n }

base_id(id) == id

fresh_id(id, offset) == base_id(id) + offset * MAX_ID

Union(id1, id2) == [kind |-> "Union", id1 |-> id1, id2 |-> id2]
Concat(id1, id2) == [kind |-> "Concat", id1 |-> id1, id2 |-> id2]
Noop(id1) == [kind |-> "Noop", id1 |-> id1]
Char(ch) == [kind |-> "Char", ch |-> ch]

SmartRegexMatcher_new ==
    [regex_defs |-> <<>>, loops_allowed |-> FALSE,
     match_cache |-> <<>>, call_stack |-> {}]

add_regex(m, id, re) ==
    [m EXCEPT !.regex_defs = (id :> re) @@ @]

allow_loops(m) == [m EXCEPT !.loops_allowed = TRUE]

\* The rule branch of parse_input's loop for one line.
ParseRule(m, line) ==
    IF "ch" \in DOMAIN line THEN add_regex(m, line.id, Char(line.ch))
    ELSE LET alts == line.alts IN
         IF Len(alts) = 1 /\ Len(alts[1]) = 1
         THEN add_regex(m, line.id, Noop(alts[1][1]))
         ELSE IF Len(alts) = 2 /\ Len(alts[1]) = 1
         THEN add_regex(m, line.id, Union(alts[1][1], alts[2][1]))
         ELSE IF Len(alts) = 1
         THEN add_regex(m, line.id, Concat(alts[1][1], alts[1][2]))
         ELSE LET fresh1 == fresh_id(line.id, 1)
                  fresh2 == fresh_id(line.id, 2)
                  m1 == add_regex(m, line.id, Union(fresh1, fresh2))
                  m2 == add_regex(m1, fresh1, Concat(alts[1][1], alts[1][2]))
              IN  add_regex(m2, fresh2, Concat(alts[2][1], alts[2][2]))

RECURSIVE ParseRules(_, _, _)
ParseRules(m, lines, k) ==
    IF k > Len(lines) THEN m
    ELSE ParseRules(ParseRule(m, lines[k]), lines, k + 1)

\* parse_input on the rule lines (the message lines are kept as they are).
parse_input(lines) == ParseRules(SmartRegexMatcher_new, lines, 1)

get_regex(m, id) == m.regex_defs[id]

\* The split points the Concat case of eval_rec tries: 0..s.len(), exclusive.
SplitPointsShort(s) == 0..(Len(s) - 2)

SplitPoints(s) == 0..(Len(s) - 1)

\* eval_rec, returning the result together with the matcher it leaves
\* behind (match_cache and call_stack are updated on the way).
RECURSIVE eval_rec(_, _, _, _, _)
RECURSIVE ConcatSplits(_, _, _, _, _, _, _)
ConcatSplits(m, id1, id2, s, i, j, split_point) ==
    IF split_point \notin SplitPoints(s) THEN [m |-> m, result |-> FALSE]
    ELSE LET s1 == SubSeq(s, 1, split_point)
             s2 == SubSeq(s, split_point + 1, Len(s))
             b1 == eval_rec(m, id1, s1, i, i + split_point)
             b2 == eval_rec(b1.m, id2, s2, i + split_point, j)
         IN  IF b1.result /\ b2.result THEN [m |-> b2.m, result |-> TRUE]
             ELSE ConcatSplits(b2.m, id1, id2, s, i, j, split_point + 1)

eval_rec(m, id, s, i, j) ==
    LET key == <<id, i, j>> IN
    IF key \in DOMAIN m.match_cache
    THEN [m |-> m, result |-> m.match_cache[key]]
    ELSE IF key \in m.call_stack
    THEN [m |-> m, result |-> FALSE]
    ELSE LET m1 == IF m.loops_allowed
                   THEN [m EXCEPT !.call_stack = @ \cup {key}] ELSE m
             re == get_regex(m1, id)
             r == CASE re.kind = "Union" ->
                         LET r1 == eval_rec(m1, re.id1, s, i, j)
                         IN  IF r1.result THEN r1
                             ELSE eval_rec(r1.m, re.id2, s, i, j)
                    [] re.kind = "Concat" ->
                         ConcatSplits(m1, re.id1, re.id2, s, i, j, 0)
                    [] re.kind = "Noop" -> eval_rec(m1, re.id1, s, i, j)
                    [] re.kind = "Char" -> [m |-> m1, result |-> s = <<re.ch>>]
             m2 == IF m.loops_allowed
                   THEN [r.m EXCEPT !.call_stack = @ \ {key}] ELSE r.m
         IN  [m |-> [m2 EXCEPT !.match_cache = (key :> r.result) @@ @],
              result |-> r.result]

\* eval: the result of eval_rec on the whole string; the caches are reset.
eval(m, id, s) ==
    LET r == eval_rec(m, id, s, 0, Len(s))
    IN  [m |-> [r.m EXCEPT !.match_cache = <<>>, !.call_stack = {}],
         result |-> r.result]

\* tests::EX1 and tests::EX2.
EX1 ==
    [rules |-> << [id |-> 0, alts |-> << <<1, 2>> >>],
                  [id |-> 1, ch |-> "a"],
                  [id |-> 2, alts |-> << <<1, 3>>, <<3, 1>> >>],
                  [id |-> 3, ch |-> "b"] >>,
     msgs |-> << <<"a", "a", "b">>, <<"a", "b", "a">>, <<"b", "b", "a">>,
                 <<"b", "a", "b">>, <<"b", "b", "b">>, <<"a", "a", "b">> >>,
     loops |-> FALSE]

EX2 ==
    [rules |-> << [id |-> 0, alts |-> << <<4, 10>> >>],
                  [id |-> 10, alts |-> << <<1, 5>> >>],
                  [id |-> 1, alts |-> << <<2, 3>>, <<3, 2>> >>],
                  [id |-> 2, alts |-> << <<4, 4>>, <<5, 5>> >>],
                  [id |-> 3, alts |-> << <<4, 5>>, <<5, 4>> >>],
                  [id |-> 4, ch |-> "a"],
                  [id |-> 5, ch |-> "b"] >>,
     msgs |-> << <<"a", "b", "a", "b", "b", "b">>,
                 <<"b", "a", "b", "a", "b", "a">>,
                 <<"a", "b", "b", "b", "a", "b">>,
                 <<"a", "a", "a", "b", "b", "b">>,
                 <<"a", "a", "a", "a", "b", "b", "b">> >>,
     loops |-> FALSE]

\* The lines a rule id may have when it refers to the ids in refs only.
RuleLines(id, refs) ==
    { [id |-> id, ch |-> c] : c \in Alphabet }
    \cup { [id |-> id, alts |-> << <<x>> >>] : x \in refs }
    \cup { [id |-> id, alts |-> << <<x>>, <<y>> >>] : x \in refs, y \in refs }
    \cup { [id |-> id, alts |-> << <<x, y>> >>] : x \in refs, y \in refs }

\* Rule sets without cycles over the ids 0..n-1: a rule refers to higher ids
\* only (every rule set without cycles is one of these, renumbered).
RECURSIVE AcyclicFrom(_, _)
AcyclicFrom(id, n) ==
    IF id = n THEN {<<>>}
    ELSE { <<line>> \o rest : line \in RuleLines(id, (id + 1)..(n - 1)),
                              rest \in AcyclicFrom(id + 1, n) }

AcyclicRules(n) == AcyclicFrom(0, n)

Inputs(max_rules, max_len) ==
    { [rules |-> r, msgs |-> <<s>>, loops |-> FALSE] :
        r \in UNION { AcyclicRules(n) : n \in 1..max_rules },
        s \in Strings(max_len) }
    \cup {EX1, EX2}

StartMatcher(input) ==
    /\ matcher = IF input.loops THEN allow_loops(parse_input(input.rules))
                 ELSE parse_input(input.rules)
    /\ matcher_log = [rules |-> input.rules, msgs |-> input.msgs,
                      results |-> <<>>]

InitRegex ==
    /\ OthersIdle("matcher")
    /\ \E input \in Inputs(MaxRules, MaxMsgLen) : StartMatcher(input)

\* count_regex0_matches: eval(0, s) for the next message s.
Eval ==
    LET k == Len(matcher_log.results) + 1 IN
    /\ k <= Len(matcher_log.msgs)
    /\ LET r == eval(matcher, 0, matcher_log.msgs[k])
       IN  /\ matcher' = r.m
           /\ matcher_log' = [matcher_log EXCEPT !.results = Append(@, r.result)]
    /\ OthersUnchanged("matcher")

\* The count count_regex0_matches returns once every message is evaluated.
count_regex0_matches ==
    Cardinality({ k \in DOMAIN matcher_log.results : matcher_log.results[k] })

NextRegex == Eval

SpecRegex == InitRegex /\ [][NextRegex]_vars

\* Rule sets with cycles: MaxLoopRules rules, rule 1 the character "b", every
\* other rule "x | y" or "x y" over two different rules other than itself;
\* loops are allowed, as in tests::EX4 and solve_part2.
LoopLines(id, n) ==
    LET refs == (0..(n - 1)) \ {id}
        pairs == { p \in refs \X refs : p[1] # p[2] }
    IN
    { [id |-> id, alts |-> << <<p[1]>>, <<p[2]>> >>] : p \in pairs }
    \cup { [id |-> id, alts |-> << <<p[1], p[2]>> >>] : p \in pairs }

RECURSIVE LoopFrom(_, _)
LoopFrom(id, n) ==
    IF id = n THEN {<<>>}
    ELSE { <<line>> \o rest :
              line \in IF id = 1 THEN {[id |-> 1, ch |-> "b"]}
                       ELSE LoopLines(id, n),
              rest \in LoopFrom(id + 1, n) }

LoopRules(n) == LoopFrom(0, n)

LoopInputs(rules, max_len) ==
    { [rules |-> r, msgs |-> <<s>>, loops |-> TRUE] :
        r \in LoopRules(rules),
        s \in UNION { [1..k -> {"b"}] : k \in 1..max_len } }

InitRegexLoops ==
    /\ OthersIdle("matcher")
    /\ \E input \in LoopInputs(MaxLoopRules, MaxLoopMsgLen) : StartMatcher(input)

SpecRegexLoops == InitRegexLoops /\ [][NextRegex]_vars

(***************************************************************************)
(* C5, C6: claims about SmartRegexMatcher.                                  *)
(***************************************************************************)

\* The strings a rule derives, for a rule set without cycles.
RECURSIVE Derives(_, _, _)
Derives(defs, id, s) ==
    LET re == defs[id] IN
    CASE re.kind = "Char" -> s = <<re.ch>>
      [] re.kind = "Noop" -> Derives(defs, re.id1, s)
      [] re.kind = "Union" -> Derives(defs, re.id1, s) \/ Derives(defs, re.id2, s)
      [] re.kind = "Concat" ->
            \E k \in 0..Len(s) :
                /\ Derives(defs, re.id1, SubSeq(s, 1, k))
                /\ Derives(defs, re.id2, SubSeq(s, k + 1, Len(s)))

\* C5: without cycles, eval(0, s) is true exactly for the messages rule 0
\* derives, so count_regex0_matches counts them; for EX1 the count is 3.
C5_CountsDerivedMessages ==
    /\ \A k \in DOMAIN matcher_log.results :
          matcher_log.results[k]
              = Derives(matcher.regex_defs, 0, matcher_log.msgs[k])
    /\ (/\ matcher_log.rules = EX1.rules
        /\ matcher_log.msgs = EX1.msgs
        /\ Len(matcher_log.results) = Len(EX1.msgs))
          => count_regex0_matches = 3

\* EX1 has been counted, and a message was matched by a Concat rule.
C5_Witness ==
    /\ matcher_log.rules = EX1.rules
    /\ Len(matcher_log.results) = 6
    /\ count_regex0_matches = 3
    /\ matcher_log.results[1] /\ ~matcher_log.results[3]

\* The substrings s[i..j] each rule derives, for any rule set: the least set
\* closed under the rules.
RECURSIVE Closure(_, _, _)
Closure(defs, s, D) ==
    LET n == Len(s)
        more == { t \in (DOMAIN defs) \X (0..n) \X (0..n) :
                    /\ t[2] <= t[3]
                    /\ LET re == defs[t[1]] IN
                       CASE re.kind = "Char" ->
                                SubSeq(s, t[2] + 1, t[3]) = <<re.ch>>
                         [] re.kind = "Noop" -> <<re.id1, t[2], t[3]>> \in D
                         [] re.kind = "Union" ->
                                \/ <<re.id1, t[2], t[3]>> \in D
                                \/ <<re.id2, t[2], t[3]>> \in D
                         [] re.kind = "Concat" ->
                                \E k \in t[2]..t[3] :
                                    /\ <<re.id1, t[2], k>> \in D
                                    /\ <<re.id2, k, t[3]>> \in D }
    IN  IF more \subseteq D THEN D ELSE Closure(defs, s, D \cup more)

Derivable(defs, id, s) == <<id, 0, Len(s)>> \in Closure(defs, s, {})

\* C6: with loops allowed, eval(0, s) is true exactly when rule 0 derives s.
C6_LoopsExact ==
    \A k \in DOMAIN matcher_log.results :
        matcher_log.results[k]
            = Derivable(matcher.regex_defs, 0, matcher_log.msgs[k])

(***************************************************************************)
(* day20.rs: Tile, its edges and its reorientation.                         *)
(*                                                                          *)
(* A grid is a function [0..len-1 -> [0..len-1 -> BOOLEAN]], indexed        *)
(* grid[row][column] as in the source.                                      *)
(***************************************************************************)

MaxTileLen == 3
MaxPixels == 2
MaxReorients == 8
MaxOtherCalls == 1

\* bools_to_int: the bools read as a binary number, first bool highest.
RECURSIVE bools_to_int(_)
bools_to_int(v) ==
    IF Len(v) = 0 THEN 0
    ELSE 2 * bools_to_int(SubSeq(v, 1, Len(v) - 1))
            + (IF v[Len(v)] THEN 1 ELSE 0)

\* The items of an iterator, collected in order into a sequence.
Collect(v) == SubSeq(v, 1, Len(v))

Reverse(v) == Collect([k \in 1..Len(v) |-> v[Len(v) + 1 - k]])

\* EdgeInfo::from_bools.
from_bools(bools) ==
    [fwd_id |-> bools_to_int(bools), bck_id |-> bools_to_int(Reverse(bools))]

oriented_id(edge) == edge.fwd_id

unoriented_idForward(edge) == edge.fwd_id

unoriented_id(edge) ==
    IF edge.fwd_id <= edge.bck_id THEN edge.fwd_id ELSE edge.bck_id

Tile_new(id, grid) ==
    [id |-> id, len |-> Cardinality(DOMAIN grid), grid |-> grid,
     times_reoriented |-> 0]

\* The pixels an edge reads, in reading order: get_edge's coordinates
\* mapped through the grid by edge_from_coords.
EdgeBools(t, dir) ==
    LET n == t.len IN
    CASE dir = "North" -> Collect([k \in 1..n |-> t.grid[0][k - 1]])
      [] dir = "East"  -> Collect([k \in 1..n |-> t.grid[k - 1][n - 1]])
      [] dir = "South" -> Collect([k \in 1..n |-> t.grid[n - 1][k - 1]])
      [] dir = "West"  -> Collect([k \in 1..n |-> t.grid[k - 1][0]])

get_edge(t, dir) == from_bools(EdgeBools(t, dir))

get_edges(t) ==
    <<get_edge(t, "North"), get_edge(t, "East"),
      get_edge(t, "South"), get_edge(t, "West")>>

\* The inner loop of rotate for row i, from column j on, writing into the
\* clone new_grid what it reads from the grid of self.
RECURSIVE RotateRow(_, _, _, _, _)
RotateRow(new_grid, grid, len, i, j) ==
    IF j = len THEN new_grid
    ELSE RotateRow([new_grid EXCEPT ![j][len - i - 1] = grid[i][j]],
                   grid, len, i, j + 1)

\* The outer loop of rotate, from row i on.  The clone has the rows of the
\* grid; the test has the writes of row i computed before row i + 1 begins.
RECURSIVE RotateLoop(_, _, _, _)
RotateLoop(new_grid, grid, len, i) ==
    IF i = len THEN new_grid
    ELSE LET written == RotateRow(new_grid, grid, len, i, 0)
         IN  IF DOMAIN written = DOMAIN grid
             THEN RotateLoop(written, grid, len, i + 1)
             ELSE written

Tile_rotate(t) == [t EXCEPT !.grid = RotateLoop(t.grid, t.grid, t.len, 0)]

RECURSIVE ReflectRow(_, _, _, _, _)
ReflectRow(new_grid, grid, len, i, j) ==
    IF j = len THEN new_grid
    ELSE ReflectRow([new_grid EXCEPT ![j][i] = grid[i][j]],
                    grid, len, i, j + 1)

RECURSIVE ReflectLoop(_, _, _, _)
ReflectLoop(new_grid, grid, len, i) ==
    IF i = len THEN new_grid
    ELSE LET written == ReflectRow(new_grid, grid, len, i, 0)
         IN  IF DOMAIN written = DOMAIN grid
             THEN ReflectLoop(written, grid, len, i + 1)
             ELSE written

Tile_reflect(t) == [t EXCEPT !.grid = ReflectLoop(t.grid, t.grid, t.len, 0)]

Tile_reorientNoReflect(t) ==
    [Tile_rotate(t) EXCEPT !.times_reoriented = @ + 1]

Tile_reorient(t) ==
    LET rotated == [Tile_rotate(t) EXCEPT !.times_reoriented = @ + 1]
    IN  IF rotated.times_reoriented % 4 = 0 THEN Tile_reflect(rotated)
        ELSE rotated

\* The len x len grids with at most max_pixels pixels set.
Grids(len, max_pixels) ==
    LET cells == (0..(len - 1)) \X (0..(len - 1))
        few == { on \in SUBSET cells : Cardinality(on) <= max_pixels }
    IN  { [i \in 0..(len - 1) |-> [j \in 0..(len - 1) |-> <<i, j>> \in on]] :
            on \in few }

InitTile ==
    /\ OthersIdle("tile")
    /\ \E len \in 1..MaxTileLen :
          \E grid \in Grids(len, MaxPixels) :
              /\ tile = Tile_new(1, grid)
              /\ tile_log = [grid |-> grid, others |-> 0]

Rotate ==
    /\ tile_log.others < MaxOtherCalls
    /\ tile' = Tile_rotate(tile)
    /\ tile_log' = [tile_log EXCEPT !.others = @ + 1]
    /\ OthersUnchanged("tile")

Reflect ==
    /\ tile_log.others < MaxOtherCalls
    /\ tile' = Tile_reflect(tile)
    /\ tile_log' = [tile_log EXCEPT !.others = @ + 1]
    /\ OthersUnchanged("tile")

Reorient ==
    /\ tile.times_reoriented < MaxReorients
    /\ tile' = Tile_reorient(tile)
    /\ UNCHANGED tile_log
    /\ OthersUnchanged("tile")

NextTile == Rotate \/ Reflect \/ Reorient

SpecTile == InitTile /\ [][NextTile]_vars

(***************************************************************************)
(* C7, C8: claims about Tile.                                               *)
(***************************************************************************)

\* The symmetries of the square on a len x len grid, as maps of positions:
\* the pixel at (a, b) of the image is the pixel at Source(a, b) of g.
Moved(g, len, Source(_, _)) ==
    [a \in 0..(len - 1) |-> [b \in 0..(len - 1) |->
        g[Source(a, b)[1]][Source(a, b)[2]]]]

QuarterTurn(g, len) ==
    LET Src(a, b) == <<len - 1 - b, a>> IN Moved(g, len, Src)

Transposed(g, len) ==
    LET Src(a, b) == <<b, a>> IN Moved(g, len, Src)

RECURSIVE Turned(_, _, _)
Turned(g, len, k) == IF k = 0 THEN g ELSE QuarterTurn(Turned(g, len, k - 1), len)

\* The 8 images of g: 4 rotations, the 2 mirror images and the 2 diagonal
\* flips, each given by its own position map.
Symmetries(g, len) ==
    LET m == len - 1
        Id(a, b) == <<a, b>>
        R1(a, b) == <<m - b, a>>
        R2(a, b) == <<m - a, m - b>>
        R3(a, b) == <<b, m - a>>
        FlipRows(a, b) == <<m - a, b>>
        FlipCols(a, b) == <<a, m - b>>
        Diag(a, b) == <<b, a>>
        AntiDiag(a, b) == <<m - b, m - a>>
    IN  { Moved(g, len, Id), Moved(g, len, R1), Moved(g, len, R2),
          Moved(g, len, R3), Moved(g, len, FlipRows), Moved(g, len, FlipCols),
          Moved(g, len, Diag), Moved(g, len, AntiDiag) }

\* The grid the claim expects after k calls of reorient.
Expected(g, len, k) ==
    IF (k % 8) < 4 THEN Turned(g, len, k % 8)
    ELSE Turned(Transposed(g, len), len, (k % 8) - 4)

\* C7: after k = 0..7 calls of reorient on a fresh tile the grid is the k-th
\* rotation of the tile and, from the 4th call on, the (k-4)-th rotation of
\* its transpose; these 8 grids are all 8 symmetries of the square, and the
\* 8th call gives the original grid back.
C7_ReorientCycle ==
    tile_log.others = 0 =>
        /\ tile.grid = Expected(tile_log.grid, tile.len, tile.times_reoriented)
        /\ { Expected(tile_log.grid, tile.len, k) : k \in 0..7 }
              = Symmetries(tile_log.grid, tile.len)
        /\ tile.times_reoriented = 8 => tile.grid = tile_log.grid

\* A tile none of whose 8 images coincide has gone through the whole cycle.
C7_Witness ==
    /\ tile_log.others = 0
    /\ tile.times_reoriented = 8
    /\ tile.grid = tile_log.grid
    /\ Cardinality(Symmetries(tile_log.grid, tile.len)) = 8

Dirs == {"North", "East", "South", "West"}

\* The four unoriented edge IDs of a tile as a multiset: ID -> occurrences.
EdgeIds(t) ==
    LET edges == get_edges(t)
        ids == <<unoriented_id(edges[1]), unoriented_id(edges[2]),
                 unoriented_id(edges[3]), unoriented_id(edges[4])>>
    IN  [x \in Range(ids) |-> Cardinality({ k \in 1..4 : ids[k] = x })]

\* C8: an edge and its reversal have the same unoriented ID, and the multiset
\* of the four unoriented edge IDs of a tile is the one it was created with,
\* whatever rotate, reflect and reorient calls were made.
C8_EdgeIdsKept ==
    /\ \A dir \in Dirs :
          unoriented_id(from_bools(Reverse(EdgeBools(tile, dir))))
              = unoriented_id(get_edge(tile, dir))
    /\ EdgeIds(tile) = EdgeIds(Tile_new(1, tile_log.grid))

\* A tile with an edge that differs from its reversal has been rotated,
\* reflected and reoriented, and that edge now lies on another side.
C8_Witness ==
    /\ tile_log.others = MaxOtherCalls
    /\ tile.times_reoriented >= 1
    /\ get_edge(tile, "North").fwd_id # get_edge(tile, "North").bck_id
    /\ get_edges(tile) # get_edges(Tile_new(1, tile_log.grid))

(***************************************************************************)
(* day18.rs: Expression and its two evaluators.                             *)
(*                                                                          *)
(* A raw line is a sequence of characters.  eval_part1 and eval_part2 are   *)
(* loops over the tokens: one action per arm of their match, and one for    *)
(* the code after the loop.  A failed assert! ends the run in "panic".      *)
(***************************************************************************)

MaxTokens == 4
MaxExprLen == 9

LParen == [kind |-> "LParen"]
RParen == [kind |-> "RParen"]
Op(op) == [kind |-> "Op", op |-> op]
Num(n) == [kind |-> "Num", n |-> n]

\* char::to_digit(10) on the digits.
to_digit ==
    [ch \in {"0", "1", "2", "3", "4", "5", "6", "7", "8", "9"} |->
        CASE ch = "0" -> 0 [] ch = "1" -> 1 [] ch = "2" -> 2 [] ch = "3" -> 3
          [] ch = "4" -> 4 [] ch = "5" -> 5 [] ch = "6" -> 6 [] ch = "7" -> 7
          [] ch = "8" -> 8 [] ch = "9" -> 9]

\* Token::try_from (an unrecognized symbol is an Err, which no input here has).
Token_try_from(ch) ==
    CASE ch = "(" -> LParen
      [] ch = ")" -> RParen
      [] ch = "+" -> Op("Plus")
      [] ch = "*" -> Op("Times")
      [] OTHER -> Num(to_digit[ch])

\* Expression::from_str: whitespace is dropped, every other char is a token.
Expression_from_str(raw) ==
    LET kept == SelectSeq(raw, LAMBDA ch : ch # " ")
    IN  [tokens |-> [k \in DOMAIN kept |-> Token_try_from(kept[k])]]

\* BinOp::apply.
apply(op, left, right) ==
    IF op = "Plus" THEN left + right ELSE left * right

\* The locals of eval_part1 and of eval_part2 before the loop.
StartRun(part) ==
    IF part = 1
    THEN [part |-> 1, pos |-> 1, value |-> 0, pending |-> "Plus",
          stack |-> <<>>, outcome |-> "running", result |-> 0]
    ELSE [part |-> 2, pos |-> 1, state_prod |-> 1, state_sum |-> 0,
          pending |-> TRUE, stack |-> <<>>, outcome |-> "running",
          result |-> 0]

Panic(r) == [r EXCEPT !.outcome = "panic"]

Advance(r) == [r EXCEPT !.pos = @ + 1]

\* eval_part1's pending is an Option<BinOp>; "NoOp" is its None.
eval_part1_LParen(r) ==
    IF r.pending = "NoOp" THEN Panic(r)
    ELSE Advance([r EXCEPT !.stack = Append(@, <<r.value, r.pending>>),
                           !.value = 0,
                           !.pending = "Plus"])

\* eval_part1's arm for ')' without its first assertion.
eval_part1_RParenUnchecked(r) ==
    IF r.stack = <<>> THEN Panic(r)
    ELSE LET top == r.stack[Len(r.stack)]
         IN  Advance([r EXCEPT !.stack = SubSeq(@, 1, Len(@) - 1),
                               !.value = apply(top[2], top[1], r.value)])

eval_part1_RParen(r) ==
    IF r.pending # "NoOp" THEN Panic(r)
    ELSE IF r.stack = <<>> THEN Panic(r)
    ELSE LET top == r.stack[Len(r.stack)]
         IN  Advance([r EXCEPT !.stack = SubSeq(@, 1, Len(@) - 1),
                               !.value = apply(top[2], top[1], r.value)])

eval_part1_Op(r, op) ==
    IF r.pending # "NoOp" THEN Panic(r)
    ELSE Advance([r EXCEPT !.pending = op])

eval_part1_Num(r, n) ==
    IF r.pending = "NoOp" THEN Panic(r)
    ELSE Advance([r EXCEPT !.value = apply(r.pending, r.value, n),
                           !.pending = "NoOp"])

eval_part1_Return(r) ==
    IF r.pending # "NoOp" THEN Panic(r)
    ELSE IF r.stack # <<>> THEN Panic(r)
    ELSE [r EXCEPT !.outcome = "value", !.result = r.value]

eval_part2_LParen(r) ==
    IF ~r.pending THEN Panic(r)
    ELSE Advance([r EXCEPT !.stack = Append(@, <<r.state_prod, r.state_sum>>),
                           !.state_prod = 1,
                           !.state_sum = 0,
                           !.pending = TRUE])

eval_part2_RParen(r) ==
    IF r.pending THEN Panic(r)
    ELSE IF r.stack = <<>> THEN Panic(r)
    ELSE LET top == r.stack[Len(r.stack)]
         IN  Advance([r EXCEPT !.stack = SubSeq(@, 1, Len(@) - 1),
                               !.state_sum = top[2] + (r.state_prod * r.state_sum),
                               !.state_prod = top[1]])

eval_part2_OpKeepSum(r, op) ==
    IF r.pending THEN Panic(r)
    ELSE IF op = "Times"
         THEN Advance([r EXCEPT !.state_prod = @ * r.state_sum,
                                !.pending = TRUE])
         ELSE Advance([r EXCEPT !.pending = TRUE])

eval_part2_Op(r, op) ==
    IF r.pending THEN Panic(r)
    ELSE IF op = "Times"
         THEN Advance([r EXCEPT !.state_prod = @ * r.state_sum,
                                !.state_sum = 0,
                                !.pending = TRUE])
         ELSE Advance([r EXCEPT !.pending = TRUE])

eval_part2_Num(r, n) ==
    IF ~r.pending THEN Panic(r)
    ELSE Advance([r EXCEPT !.state_sum = @ + n, !.pending = FALSE])

eval_part2_Return(r) ==
    IF r.pending THEN Panic(r)
    ELSE IF r.stack # <<>> THEN Panic(r)
    ELSE [r EXCEPT !.outcome = "value",
                   !.result = r.state_prod * r.state_sum]

\* The raw lines of test_part2.
TestLines ==
    { <<"2", " ", "+", " ", "3">>,
      <<"2", " ", "*", " ", "3">>,
      <<"2", " ", "+", " ", "2", " ", "+", " ", "3">>,
      <<"2", " ", "+", " ", "2", " ", "*", " ", "3">>,
      <<"2", " ", "*", " ", "3", " ", "+", " ", "2">>,
      <<"6", " ", "*", " ", "(", "2", " ", "+", " ", "2", ")">> }

Digits == {"2", "3"}
Operators == {"+", "*"}

\* The well-formed lines of exactly n characters: a digit, a well-formed
\* line in parentheses, or two well-formed lines with an operator between.
RECURSIVE WellFormedLines(_)
WellFormedLines(n) ==
    IF n < 1 THEN {}
    ELSE IF n = 1 THEN { <<d>> : d \in Digits }
    ELSE { <<"(">> \o e \o <<")">> : e \in WellFormedLines(n - 2) }
         \cup UNION { { a \o <<o>> \o b : a \in WellFormedLines(k),
                                         o \in Operators,
                                         b \in WellFormedLines(n - 1 - k) } :
                      k \in 1..(n - 2) }

\* Every line of up to max_tokens characters, every well-formed line of up
\* to max_len characters, and the lines of the tests.
Lines(max_tokens, max_len) ==
    UNION { [1..k -> Digits \cup Operators \cup {"(", ")"}] : k \in 0..max_tokens }
    \cup UNION { WellFormedLines(n) : n \in 1..max_len }
    \cup TestLines

InitExpr ==
    /\ OthersIdle("expr")
    /\ \E raw \in Lines(MaxTokens, MaxExprLen), part \in {1, 2} :
          /\ expr = Expression_from_str(raw)
          /\ expr_run = StartRun(part)

Reading(kind) ==
    /\ expr_run.outcome = "running"
    /\ expr_run.pos <= Len(expr.tokens)
    /\ expr.tokens[expr_run.pos].kind = kind

ReadLParen ==
    /\ Reading("LParen")
    /\ expr_run' = IF expr_run.part = 1 THEN eval_part1_LParen(expr_run)
                   ELSE eval_part2_LParen(expr_run)
    /\ UNCHANGED expr
    /\ OthersUnchanged("expr")

ReadRParen ==
    /\ Reading("RParen")
    /\ expr_run' = IF expr_run.part = 1 THEN eval_part1_RParen(expr_run)
                   ELSE eval_part2_RParen(expr_run)
    /\ UNCHANGED expr
    /\ OthersUnchanged("expr")

ReadOp ==
    /\ Reading("Op")
    /\ LET op == expr.tokens[expr_run.pos].op
       IN  expr_run' = IF expr_run.part = 1 THEN eval_part1_Op(expr_run, op)
                       ELSE eval_part2_Op(expr_run, op)
    /\ UNCHANGED expr
    /\ OthersUnchanged("expr")

ReadNum ==
    /\ Reading("Num")
    /\ LET n == expr.tokens[expr_run.pos].n
       IN  expr_run' = IF expr_run.part = 1 THEN eval_part1_Num(expr_run, n)
                       ELSE eval_part2_Num(expr_run, n)
    /\ UNCHANGED expr
    /\ OthersUnchanged("expr")

Return ==
    /\ expr_run.outcome = "running"
    /\ expr_run.pos > Len(expr.tokens)
    /\ expr_run' = IF expr_run.part = 1 THEN eval_part1_Return(expr_run)
                   ELSE eval_part2_Return(expr_run)
    /\ UNCHANGED expr
    /\ OthersUnchanged("expr")

NextExpr == ReadLParen \/ ReadRParen \/ ReadOp \/ ReadNum \/ Return

SpecExpr == InitExpr /\ [][NextExpr]_vars

\* The number of parentheses open before position k of the tokens e.
Depth(e, k) ==
    Cardinality({j \in 1..(k - 1) : e[j].kind = "LParen"})
    - Cardinality({j \in 1..(k - 1) : e[j].kind = "RParen"})

\* The positions of the operators of e that are inside no parentheses.
TopLevelOps(e) ==
    {k \in DOMAIN e : e[k].kind = "Op" /\ Depth(e, k) = 0}

Last(S) == CHOOSE k \in S : \A j \in S : j <= k

\* A well-formed expression: a number, a well-formed expression in
\* parentheses, or two well-formed expressions with an operator between.
RECURSIVE WellFormed(_)
WellFormed(e) ==
    IF e = <<>> THEN FALSE
    ELSE IF TopLevelOps(e) # {}
    THEN LET k == Last(TopLevelOps(e))
         IN  /\ WellFormed(SubSeq(e, 1, k - 1))
             /\ WellFormed(SubSeq(e, k + 1, Len(e)))
    ELSE IF Len(e) = 1 THEN e[1].kind = "Num"
    ELSE /\ e[1].kind = "LParen"
         /\ e[Len(e)].kind = "RParen"
         /\ WellFormed(SubSeq(e, 2, Len(e) - 1))

\* The value of a well-formed expression when + binds tighter than *: a
\* product is taken at the operators * outside parentheses, and only an
\* expression without such a * is a sum.
RECURSIVE AdditionFirst(_)
AdditionFirst(e) ==
    LET times == {k \in TopLevelOps(e) : e[k].op = "Times"}
        plus  == {k \in TopLevelOps(e) : e[k].op = "Plus"}
    IN  IF times # {}
        THEN AdditionFirst(SubSeq(e, 1, Last(times) - 1))
             * AdditionFirst(SubSeq(e, Last(times) + 1, Len(e)))
        ELSE IF plus # {}
        THEN AdditionFirst(SubSeq(e, 1, Last(plus) - 1))
             + AdditionFirst(SubSeq(e, Last(plus) + 1, Len(e)))
        ELSE IF Len(e) = 1 THEN e[1].n
        ELSE AdditionFirst(SubSeq(e, 2, Len(e) - 1))

Part2Of(raw, result) ==
    (expr_run.part = 2 /\ expr = Expression_from_str(raw)
        /\ expr_run.outcome = "value")
    => expr_run.result = result

\* C9: on a well-formed expression eval_part2 fails no assertion and
\* returns the value the expression has when + binds tighter than * and
\* parenthesised groups are evaluated first; 2 + 2 * 3 gives 12, 2 * 3 + 2
\* gives 10 and 6 * (2 + 2) gives 24.
C9_Part2AdditionFirst ==
    /\ (expr_run.part = 2 /\ WellFormed(expr.tokens)) =>
          /\ expr_run.outcome # "panic"
          /\ expr_run.outcome = "value" =>
                expr_run.result = AdditionFirst(expr.tokens)
    /\ Part2Of(<<"2", " ", "+", " ", "2", " ", "*", " ", "3">>, 12)
    /\ Part2Of(<<"2", " ", "*", " ", "3", " ", "+", " ", "2">>, 10)
    /\ Part2Of(<<"6", " ", "*", " ", "(", "2", " ", "+", " ", "2", ")">>, 24)

\* eval_part2 has returned the value of a well-formed expression in which a
\* sum in parentheses follows a product.
C9_Witness ==
    /\ expr_run.part = 2
    /\ expr_run.outcome = "value"
    /\ WellFormed(expr.tokens)
    /\ \E k \in DOMAIN expr.tokens :
          /\ k > 1
          /\ k + 2 <= Len(expr.tokens)
          /\ expr.tokens[k].kind = "LParen"
          /\ expr.tokens[k - 1] = Op("Times")
          /\ expr.tokens[k + 2] = Op("Plus")
    /\ expr_run.result = 24

(***************************************************************************)
(* day12.rs: ShipNav, solve_part1 and solve_part2.                          *)
(*                                                                          *)
(* The input is a list of <<action, amount>> pairs.  The amounts are        *)
(* positive and the amounts of R and L are multiples of 90, so that no      *)
(* debug_assert! of the code fails; one action per loop body, and one for   *)
(* the return.                                                              *)
(***************************************************************************)

MaxActions == 3
MaxAmount == 2
MaxQuarterTurns == 5

DIR_N == [dx |-> 0, dy |-> 1]
DIR_E == [dx |-> 1, dy |-> 0]
DIR_S == [dx |-> 0, dy |-> -1]
DIR_W == [dx |-> -1, dy |-> 0]

turn_clockwise(dir) == [dx |-> dir.dy, dy |-> -dir.dx]

ShipNav_new == [waypoint |-> DIR_E, x |-> 0, y |-> 0]

set_waypoint(s, dx, dy) == [s EXCEPT !.waypoint = [dx |-> dx, dy |-> dy]]

move_ship(s, dir, amount) ==
    [s EXCEPT !.x = @ + (dir.dx * amount), !.y = @ + (dir.dy * amount)]

move_waypoint(s, dir, amount) ==
    [s EXCEPT !.waypoint.dx = @ + (dir.dx * amount),
              !.waypoint.dy = @ + (dir.dy * amount)]

\* The division of isize, which rounds towards zero.
IsizeDiv(a, b) == IF a >= 0 THEN a \div b ELSE -((-a) \div b)

\* for _i in 0..turns: no iteration when turns is zero or negative.
RECURSIVE TurnLoop(_, _)
TurnLoop(dir, turns) ==
    IF turns <= 0 THEN dir ELSE TurnLoop(turn_clockwise(dir), turns - 1)

rotate_waypoint_clockwise(s, amount) ==
    LET turns == IsizeDiv(amount, 90)
    IN  [s EXCEPT !.waypoint = TurnLoop(@, turns)]

action_part1(s, action, amount) ==
    CASE action = "N" -> move_ship(s, DIR_N, amount)
      [] action = "E" -> move_ship(s, DIR_E, amount)
      [] action = "S" -> move_ship(s, DIR_S, amount)
      [] action = "W" -> move_ship(s, DIR_W, amount)
      [] action = "F" -> move_ship(s, s.waypoint, amount)
      [] action = "R" -> rotate_waypoint_clockwise(s, amount)
      [] action = "L" -> rotate_waypoint_clockwise(s, 360 - amount)

action_part2(s, action, amount) ==
    CASE action = "N" -> move_waypoint(s, DIR_N, amount)
      [] action = "E" -> move_waypoint(s, DIR_E, amount)
      [] action = "S" -> move_waypoint(s, DIR_S, amount)
      [] action = "W" -> move_waypoint(s, DIR_W, amount)
      [] action = "F" -> move_ship(s, s.waypoint, amount)
      [] action = "R" -> rotate_waypoint_clockwise(s, amount)
      [] action = "L" -> rotate_waypoint_clockwise(s, 360 - amount)

Abs(n) == IF n < 0 THEN -n ELSE n

manhattan(s) == Abs(s.x) + Abs(s.y)

\* The input of test_part1 and test_part2.
TestActions ==
    << <<"F", 10>>, <<"N", 3>>, <<"F", 7>>, <<"R", 90>>, <<"F", 11>> >>

\* The pairs of an input: a move by 1..max_amount, or a turn by up to
\* max_turns quarter turns.
Pairs(max_amount, max_turns) ==
    ({"N", "E", "S", "W", "F"} \X (1..max_amount))
    \cup ({"R", "L"} \X {90 * k : k \in 1..max_turns})

ShipInputs(max_actions, max_amount, max_turns) ==
    UNION { [1..n -> Pairs(max_amount, max_turns)] : n \in 0..max_actions }
    \cup {TestActions}

\* solve_part1 and solve_part2 before their loop.
InitShip ==
    /\ OthersIdle("ship")
    /\ \E input \in ShipInputs(MaxActions, MaxAmount, MaxQuarterTurns),
          part \in {1, 2} :
          /\ ship = IF part = 1 THEN ShipNav_new
                    ELSE set_waypoint(ShipNav_new, 10, 1)
          /\ ship_run = [part |-> part, input |-> input, pos |-> 1,
                         returned |-> FALSE, result |-> 0]

ActionPart1 ==
    /\ ship_run.part = 1
    /\ ship_run.pos <= Len(ship_run.input)
    /\ LET pair == ship_run.input[ship_run.pos]
       IN  ship' = action_part1(ship, pair[1], pair[2])
    /\ ship_run' = [ship_run EXCEPT !.pos = @ + 1]
    /\ OthersUnchanged("ship")

ActionPart2 ==
    /\ ship_run.part = 2
    /\ ship_run.pos <= Len(ship_run.input)
    /\ LET pair == ship_run.input[ship_run.pos]
       IN  ship' = action_part2(ship, pair[1], pair[2])
    /\ ship_run' = [ship_run EXCEPT !.pos = @ + 1]
    /\ OthersUnchanged("ship")

Manhattan ==
    /\ ~ship_run.returned
    /\ ship_run.pos > Len(ship_run.input)
    /\ ship_run' = [ship_run EXCEPT !.returned = TRUE,
                                    !.result = manhattan(ship)]
    /\ UNCHANGED ship
    /\ OthersUnchanged("ship")

NextShip == ActionPart1 \/ ActionPart2 \/ Manhattan

SpecShip == InitShip /\ [][NextShip]_vars

\* The four headings in clockwise order, the east first.
Compass == <<DIR_E, DIR_S, DIR_W, DIR_N>>

\* The offset dir turned clockwise around its origin by q quarter turns.
Turned90(dir, q) ==
    CASE q % 4 = 0 -> dir
      [] q % 4 = 1 -> [dx |-> dir.dy, dy |-> -dir.dx]
      [] q % 4 = 2 -> [dx |-> -dir.dx, dy |-> -dir.dy]
      [] q % 4 = 3 -> [dx |-> -dir.dy, dy |-> dir.dx]

\* A turn to the left by q quarter turns is one to the right by 3 * q.
QuarterTurns(action, amount) ==
    IF action = "R" THEN amount \div 90 ELSE 3 * (amount \div 90)

Unit(action) ==
    CASE action = "N" -> [dx |-> 0, dy |-> 1]
      [] action = "E" -> [dx |-> 1, dy |-> 0]
      [] action = "S" -> [dx |-> 0, dy |-> -1]
      [] action = "W" -> [dx |-> -1, dy |-> 0]

\* Part 1 after the actions of input, as a position and a heading (the
\* number of quarter turns clockwise from the east).
RECURSIVE Sailed1(_)
Sailed1(input) ==
    IF input = <<>> THEN [x |-> 0, y |-> 0, heading |-> 0]
    ELSE LET before == Sailed1(SubSeq(input, 1, Len(input) - 1))
             action == input[Len(input)][1]
             amount == input[Len(input)][2]
         IN  IF action \in {"R", "L"}
             THEN [before EXCEPT !.heading =
                      (@ + QuarterTurns(action, amount)) % 4]
             ELSE LET dir == IF action = "F" THEN Compass[before.heading + 1]
                             ELSE Unit(action)
                  IN  [before EXCEPT !.x = @ + (amount * dir.dx),
                                     !.y = @ + (amount * dir.dy)]

\* Part 2 after the actions of input, as a position and a waypoint
\* relative to it.
RECURSIVE Sailed2(_)
Sailed2(input) ==
    IF input = <<>> THEN [x |-> 0, y |-> 0, waypoint |-> [dx |-> 10, dy |-> 1]]
    ELSE LET before == Sailed2(SubSeq(input, 1, Len(input) - 1))
             action == input[Len(input)][1]
             amount == input[Len(input)][2]
         IN  IF action \in {"R", "L"}
             THEN [before EXCEPT !.waypoint =
                      Turned90(@, QuarterTurns(action, amount))]
             ELSE IF action = "F"
             THEN [before EXCEPT !.x = @ + (amount * before.waypoint.dx),
                                 !.y = @ + (amount * before.waypoint.dy)]
             ELSE [before EXCEPT !.waypoint.dx = @ + (amount * Unit(action).dx),
                                 !.waypoint.dy = @ + (amount * Unit(action).dy)]

Executed == SubSeq(ship_run.input, 1, ship_run.pos - 1)

\* C10: after each action of the list the ship is where the actions so
\* far put it (part 1: N/E/S/W move the ship, F moves it along the heading,
\* initially east, R/L turn the heading in 90-degree steps; part 2: N/E/S/W
\* move the waypoint, initially 10 east and 1 north, F moves the ship by
\* amount times the waypoint, R/L rotate the waypoint around the ship), the
\* value returned is |x| + |y|, and for F10, N3, F7, R90, F11 it is 25 in
\* part 1 and 286 in part 2.
C10_ShipFollowsActions ==
    /\ ship_run.part = 1 =>
          LET at == Sailed1(Executed)
          IN  /\ ship.x = at.x /\ ship.y = at.y
              /\ ship.waypoint = Compass[at.heading + 1]
              /\ ship_run.returned => ship_run.result = Abs(at.x) + Abs(at.y)
    /\ ship_run.part = 2 =>
          LET at == Sailed2(Executed)
          IN  /\ ship.x = at.x /\ ship.y = at.y
              /\ ship.waypoint = at.waypoint
              /\ ship_run.returned => ship_run.result = Abs(at.x) + Abs(at.y)
    /\ (ship_run.returned /\ ship_run.input = TestActions) =>
          ship_run.result = IF ship_run.part = 1 THEN 25 ELSE 286

(***************************************************************************)
(* day20.rs: UnsortedPuzzle, SortedPuzzle and AssembledPuzzle::new.         *)
(*                                                                          *)
(* An Option is a sequence: <<>> is None and <<t>> is Some(t).  For a       *)
(* function f with assert! calls, f_asserted says that they all hold and f  *)
(* is the value f returns then.                                             *)
(***************************************************************************)

MaxTurns == 7

fits_core(t, other, dir1, dir2) ==
    oriented_id(get_edge(t, dir1)) = oriented_id(get_edge(other, dir2))

fits_south(t, other) == fits_core(t, other, "South", "North")

fits_east(t, other) == fits_core(t, other, "East", "West")

\* puzzle.edges.entry(id).or_default().push(tile_id) for the edges infos
\* of a tile from the k-th on.
RECURSIVE PushEdges(_, _, _, _)
PushEdges(edges, tile_id, infos, k) ==
    IF k > Len(infos) THEN edges
    ELSE LET id == unoriented_id(infos[k])
         IN  PushEdges(IF id \in DOMAIN edges
                       THEN [edges EXCEPT ![id] = Append(@, tile_id)]
                       ELSE edges @@ (id :> <<tile_id>>),
                       tile_id, infos, k + 1)

\* The loop of UnsortedPuzzle::new from the k-th tile of the list on.
RECURSIVE UnsortedLoop(_, _, _)
UnsortedLoop(puzzle_so_far, tile_list, k) ==
    IF k > Len(tile_list) THEN puzzle_so_far
    ELSE LET t == tile_list[k]
         IN  UnsortedLoop(
                [tiles |-> IF t.id \in DOMAIN puzzle_so_far.tiles
                           THEN [puzzle_so_far.tiles EXCEPT ![t.id] = t]
                           ELSE puzzle_so_far.tiles @@ (t.id :> t),
                 edges |-> PushEdges(puzzle_so_far.edges, t.id, get_edges(t), 1),
                 tile_len |-> IF puzzle_so_far.tile_len = 0 THEN t.len
                              ELSE puzzle_so_far.tile_len],
                tile_list, k + 1)

\* UnsortedPuzzle::new asserts that the tiles have one length.
UnsortedPuzzle_new_asserted(tile_list) ==
    \A k \in DOMAIN tile_list : tile_list[k].len = tile_list[1].len

UnsortedPuzzle_new(tile_list) ==
    UnsortedLoop([tiles |-> <<>>, edges |-> <<>>, tile_len |-> 0],
                 tile_list, 1)

edge_count(unsorted, edge) == Len(unsorted.edges[unoriented_id(edge)])

is_puzzle_edge_asserted(unsorted, edge) == edge_count(unsorted, edge) \in {1, 2}

is_puzzle_edge(unsorted, edge) == edge_count(unsorted, edge) = 1

get_other_at_edge_asserted(unsorted, t, edge) ==
    /\ is_puzzle_edge_asserted(unsorted, edge)
    /\ ~is_puzzle_edge(unsorted, edge)

get_other_at_edge(unsorted, t, edge) ==
    LET possibilities == unsorted.edges[unoriented_id(edge)]
    IN  IF possibilities[1] = t.id THEN unsorted.tiles[possibilities[2]]
        ELSE unsorted.tiles[possibilities[1]]

\* The number of edges of t for which is_puzzle_edge is true.
unique_edges(unsorted, t) ==
    LET edges == get_edges(t)
    IN  Cardinality({k \in 1..4 : is_puzzle_edge(unsorted, edges[k])})

\* The loop of SortedPuzzle::new from the k-th tile on, the tiles of the
\* hash map visited in the given order.
RECURSIVE SortedLoop(_, _, _, _)
SortedLoop(puzzle_so_far, unsorted, order, k) ==
    IF k > Len(order) THEN puzzle_so_far
    ELSE LET t == unsorted.tiles[order[k]]
             count == unique_edges(unsorted, t)
         IN  SortedLoop(
                CASE count = 2 ->
                        [puzzle_so_far EXCEPT !.corner_tiles = Append(@, t)]
                  [] count = 1 ->
                        [puzzle_so_far EXCEPT !.edge_tiles = Append(@, t)]
                  [] count = 0 ->
                        [puzzle_so_far EXCEPT !.inside_tiles = Append(@, t)]
                  [] OTHER -> puzzle_so_far,
                unsorted, order, k + 1)

SortedPuzzle_new(unsorted, order) ==
    LET sorted == SortedLoop([corner_tiles |-> <<>>, edge_tiles |-> <<>>,
                              inside_tiles |-> <<>>, puzzle_len |-> 0],
                             unsorted, order, 1)
    IN  [sorted EXCEPT !.puzzle_len = (Len(sorted.edge_tiles) \div 4) + 2]

\* The assertions of SortedPuzzle::new: those of is_puzzle_edge, no tile
\* with three unique edges, and those of check_tile_counts.
SortedPuzzle_new_asserted(unsorted, order) ==
    /\ \A id \in DOMAIN unsorted.tiles :
          LET edges == get_edges(unsorted.tiles[id])
          IN  /\ \A e \in 1..4 : is_puzzle_edge_asserted(unsorted, edges[e])
              /\ Cardinality({e \in 1..4 :
                                 is_puzzle_edge(unsorted, edges[e])}) <= 2
    /\ LET sorted == SortedPuzzle_new(unsorted, order)
           n == sorted.puzzle_len
       IN  /\ Len(sorted.corner_tiles) = 4
           /\ Len(sorted.edge_tiles) = 4 * (n - 2)
           /\ Len(sorted.inside_tiles) = (n - 2) * (n - 2)
           /\ Cardinality(DOMAIN unsorted.tiles) = n * n
           /\ Cardinality(DOMAIN unsorted.edges) = 2 * n * (n + 1)

\* fits_southeast, its four conditions evaluated in order and only as far
\* as && and || evaluate them.
fits_southeast_asserted(unsorted, above, left, t) ==
    LET north == get_edge(t, "North")
        west == get_edge(t, "West")
    IN  IF above = <<>> /\ ~is_puzzle_edge_asserted(unsorted, north) THEN FALSE
        ELSE IF ~(above # <<>> \/ is_puzzle_edge(unsorted, north)) THEN TRUE
        ELSE IF ~(above = <<>> \/ fits_south(above[1], t)) THEN TRUE
        ELSE ~(left = <<>> /\ ~is_puzzle_edge_asserted(unsorted, west))

fits_southeastNorthOnly(unsorted, above, left, t) ==
    IF ~(above # <<>> \/ is_puzzle_edge(unsorted, get_edge(t, "North")))
    THEN FALSE
    ELSE IF ~(above = <<>> \/ fits_south(above[1], t)) THEN FALSE
    ELSE IF left = <<>> THEN TRUE ELSE fits_east(left[1], t)

fits_southeast(unsorted, above, left, t) ==
    IF ~(above # <<>> \/ is_puzzle_edge(unsorted, get_edge(t, "North")))
    THEN FALSE
    ELSE IF ~(above = <<>> \/ fits_south(above[1], t)) THEN FALSE
    ELSE IF ~(left # <<>> \/ is_puzzle_edge(unsorted, get_edge(t, "West")))
    THEN FALSE
    ELSE IF left = <<>> THEN TRUE ELSE fits_east(left[1], t)

\* 2 x 2 puzzles of 5 x 5 tiles, as pictures in which neighbouring tiles
\* overlap in their common border: the tile of row r and column c is the
\* 5 x 5 window at (4 * r, 4 * c).  No two of the 12 borders of a picture
\* have the same unoriented edge ID; some of them read the same in both
\* directions, the borders between tile 1 and its two neighbours among
\* them.
Pictures ==
    { [puzzle_len |-> 2, tile_len |-> 5, rows |->
        << <<1, 1, 0, 1, 1, 1, 0, 0, 1>>,
           <<1, 1, 1, 0, 0, 0, 1, 0, 0>>,
           <<1, 1, 1, 0, 0, 0, 0, 1, 0>>,
           <<0, 0, 0, 1, 0, 1, 1, 1, 1>>,
           <<1, 0, 1, 0, 1, 1, 0, 0, 0>>,
           <<1, 0, 1, 0, 1, 1, 0, 0, 1>>,
           <<1, 0, 1, 0, 0, 1, 0, 0, 1>>,
           <<0, 0, 0, 1, 1, 1, 1, 0, 0>>,
           <<0, 0, 1, 0, 0, 1, 0, 1, 0>> >>] }

\* The grid of the tile of row r and column c of a picture, as parse_input
\* reads it from the lines of the tile.
PictureGrid(pic, r, c) ==
    LET len == pic.tile_len
    IN  [a \in 0..(len - 1) |-> [b \in 0..(len - 1) |->
            pic.rows[((len - 1) * r) + a + 1][((len - 1) * c) + b + 1] = 1]]

RECURSIVE Reoriented(_, _)
Reoriented(t, turns) ==
    IF turns = 0 THEN t ELSE Reoriented(Tile_reorient(t), turns - 1)

\* The grids of the tiles of the pictures, numbered row by row from 1, in
\* the orientations that 0..MaxTurns reorient calls lead to.
TurnedGrids ==
    [pic \in Pictures |->
        [k \in 1..(pic.puzzle_len * pic.puzzle_len) |->
            [turn \in 0..MaxTurns |->
                LET r == (k - 1) \div pic.puzzle_len
                    c == (k - 1) % pic.puzzle_len
                IN  Reoriented(Tile_new(k, PictureGrid(pic, r, c)), turn).grid]]]

\* The tiles of a picture, the k-th given to Tile::new in the orientation
\* that turns[k] reorient calls lead to.
TileList(pic, turns) ==
    [k \in 1..(pic.puzzle_len * pic.puzzle_len) |->
        Tile_new(k, TurnedGrids[pic][k][turns[k]])]

\* Orders in which the hash map may visit the tile IDs 1..count: each ID
\* comes first in one of them.
VisitOrders(count) ==
    { [k \in 1..count |-> ((k + first - 2) % count) + 1] : first \in 1..count }

\* main before UnsortedPuzzle::new: parse_input has returned the tile list.
\* order is the order in which the hash map of the tiles will be visited.
InitPuzzle ==
    /\ OthersIdle("puzzle")
    /\ \E pic \in Pictures :
       \E turns \in [1..(pic.puzzle_len * pic.puzzle_len) -> 0..MaxTurns] :
       \E order \in VisitOrders(pic.puzzle_len * pic.puzzle_len) :
          /\ puzzle = [outcome |-> "parsed", tile_list |-> TileList(pic, turns),
                       order |-> order]
          /\ puzzle_log = [reorients |-> 0, most |-> 0]

\* main calls UnsortedPuzzle::new.
UnsortedNew ==
    /\ puzzle.outcome = "parsed"
    /\ puzzle' =
          IF UnsortedPuzzle_new_asserted(puzzle.tile_list)
          THEN [outcome |-> "unsorted", order |-> puzzle.order,
                unsorted |-> UnsortedPuzzle_new(puzzle.tile_list)]
          ELSE [puzzle EXCEPT !.outcome = "panic"]
    /\ UNCHANGED puzzle_log
    /\ OthersUnchanged("puzzle")

\* main calls SortedPuzzle::new, and AssembledPuzzle::new starts.
SortedNew ==
    /\ puzzle.outcome = "unsorted"
    /\ puzzle' =
          IF SortedPuzzle_new_asserted(puzzle.unsorted, puzzle.order)
          THEN [unsorted |-> puzzle.unsorted,
                sorted |-> SortedPuzzle_new(puzzle.unsorted, puzzle.order),
                grid |-> <<>>, i |-> 0, j |-> 0, new_tile |-> <<>>,
                outcome |-> "running"]
          ELSE [puzzle EXCEPT !.outcome = "panic"]
    /\ UNCHANGED puzzle_log
    /\ OthersUnchanged("puzzle")

\* The tile above and the tile to the left of position (i, j), as Options.
Above(p) == IF p.i = 0 THEN <<>> ELSE <<p.grid[p.i][p.j + 1]>>

Left(p) == IF p.j = 0 THEN <<>> ELSE <<p.grid[p.i + 1][p.j]>>

\* The start of the body of the loops at (i, j): the row is pushed when
\* j = 0, and new_tile is the first corner tile or the other tile at the
\* South edge of the tile above or at the East edge of the tile to the left.
AssembleNew ==
    /\ puzzle.outcome = "running"
    /\ puzzle.new_tile = <<>>
    /\ puzzle.i < puzzle.sorted.puzzle_len
    /\ LET p == [puzzle EXCEPT !.grid = IF puzzle.j = 0 THEN Append(@, <<>>)
                                        ELSE @]
           from == IF p.j = 0 THEN Above(p) ELSE Left(p)
           edge == IF p.j = 0 THEN get_edge(from[1], "South")
                   ELSE get_edge(from[1], "East")
       IN  IF p.i = 0 /\ p.j = 0
           THEN puzzle' = [p EXCEPT !.new_tile = <<p.sorted.corner_tiles[1]>>]
           ELSE IF get_other_at_edge_asserted(p.unsorted, from[1], edge)
           THEN puzzle' = [p EXCEPT !.new_tile =
                              <<get_other_at_edge(p.unsorted, from[1], edge)>>]
           ELSE puzzle' = [p EXCEPT !.outcome = "panic"]
    /\ puzzle_log' = [puzzle_log EXCEPT !.reorients = 0]
    /\ OthersUnchanged("puzzle")

\* assemble_tile: the condition of the while loop is evaluated.  When the
\* tile does not fit, it is reoriented; when it fits, assemble_tile returns
\* and the tile is pushed onto row i.
AssembleTile ==
    /\ puzzle.outcome = "running"
    /\ puzzle.new_tile # <<>>
    /\ LET t == puzzle.new_tile[1]
           above == Above(puzzle)
           left == Left(puzzle)
           last == puzzle.j + 1 = puzzle.sorted.puzzle_len
       IN  IF ~fits_southeast_asserted(puzzle.unsorted, above, left, t)
           THEN /\ puzzle' = [puzzle EXCEPT !.outcome = "panic"]
                /\ UNCHANGED puzzle_log
           ELSE IF ~fits_southeast(puzzle.unsorted, above, left, t)
           THEN /\ puzzle_log.reorients < MaxReorients
                /\ puzzle' = [puzzle EXCEPT !.new_tile = <<Tile_reorient(t)>>]
                /\ puzzle_log' = [puzzle_log EXCEPT
                      !.reorients = @ + 1,
                      !.most = IF @ < puzzle_log.reorients + 1
                               THEN puzzle_log.reorients + 1 ELSE @]
           ELSE /\ puzzle' = [puzzle EXCEPT
                                 !.grid[puzzle.i + 1] = Append(@, t),
                                 !.new_tile = <<>>,
                                 !.i = IF last THEN @ + 1 ELSE @,
                                 !.j = IF last THEN 0 ELSE @ + 1]
                /\ UNCHANGED puzzle_log
    /\ OthersUnchanged("puzzle")

\* AssembledPuzzle::new returns Self { grid, tile_len, puzzle_len }.
AssembleReturn ==
    /\ puzzle.outcome = "running"
    /\ puzzle.new_tile = <<>>
    /\ puzzle.i = puzzle.sorted.puzzle_len
    /\ puzzle' = [puzzle EXCEPT !.outcome = "done"]
    /\ UNCHANGED puzzle_log
    /\ OthersUnchanged("puzzle")

NextPuzzle ==
    \/ UnsortedNew
    \/ SortedNew
    \/ AssembleNew
    \/ AssembleTile
    \/ AssembleReturn

SpecPuzzle == InitPuzzle /\ [][NextPuzzle]_vars

(***************************************************************************)
(* C11: claims about AssembledPuzzle::new.                                  *)
(***************************************************************************)

\* The tiles given to UnsortedPuzzle::new, by tile ID.
GivenTiles ==
    IF "tile_list" \in DOMAIN puzzle
    THEN [id \in {puzzle.tile_list[k].id : k \in DOMAIN puzzle.tile_list} |->
            LET k == CHOOSE k \in DOMAIN puzzle.tile_list :
                        puzzle.tile_list[k].id = id
            IN  puzzle.tile_list[k]]
    ELSE puzzle.unsorted.tiles

\* The pixels of an edge, read in the direction that gives the lower ID.
Unoriented(bools) ==
    IF bools_to_int(bools) <= bools_to_int(Reverse(bools)) THEN bools
    ELSE Reverse(bools)

\* The edges of the tiles: <<tile ID, side, unoriented pixels>>.
Borders(tiles) ==
    { <<e[1], e[2], Unoriented(EdgeBools(tiles[e[1]], e[2]))>> :
        e \in (DOMAIN tiles) \X Dirs }

\* Every unoriented edge ID occurs on one edge of one tile, or on one edge
\* of each of two tiles.
EdgeIdsUnique(tiles) ==
    LET borders == Borders(tiles)
    IN  \A b \in borders :
           LET same == {c \in borders : c[3] = b[3]}
           IN  \/ same = {b}
               \/ /\ Cardinality(same) = 2
                  /\ \A c \in same : c = b \/ c[1] # b[1]

\* No tile other than t has the pixels of the edge of t on side dir, read
\* in either direction.
Unmatched(tiles, t, dir) ==
    LET pixels == Unoriented(EdgeBools(t, dir))
    IN  \A b \in Borders(tiles) : b[1] = t.id \/ b[3] # pixels

\* The grid AssembledPuzzle::new returned is n x n, every given tile is in
\* it once in one of its 8 orientations, the tiles fit pixel for pixel,
\* and the North edges of row 0 and the West edges of column 0 are on no
\* other tile.
Assembled(tiles, grid, n) ==
    /\ Cardinality(DOMAIN tiles) = n * n
    /\ Len(grid) = n
    /\ \A i \in 1..n : Len(grid[i]) = n
    /\ \A id \in DOMAIN tiles :
          Cardinality({ij \in (1..n) \X (1..n) :
                          grid[ij[1]][ij[2]].id = id}) = 1
    /\ \A i \in 1..n : \A j \in 1..n :
          LET t == grid[i][j]
          IN  /\ t.grid \in Symmetries(tiles[t.id].grid, t.len)
              /\ IF i > 1
                 THEN EdgeBools(t, "North") = EdgeBools(grid[i - 1][j], "South")
                 ELSE Unmatched(tiles, t, "North")
              /\ IF j > 1
                 THEN EdgeBools(t, "West") = EdgeBools(grid[i][j - 1], "East")
                 ELSE Unmatched(tiles, t, "West")

\* C11: given tiles that form an n x n puzzle in which every unoriented
\* edge ID occurs on exactly one tile or on exactly two tiles, no assertion
\* fails in UnsortedPuzzle::new, SortedPuzzle::new or AssembledPuzzle::new,
\* no call of assemble_tile reorients its tile more than 7 times, and the
\* grid AssembledPuzzle::new returns is n x n, uses every tile exactly once,
\* has each tile's North edge equal pixel for pixel to the South edge of the
\* tile above it and its West edge equal to the East edge of the tile to its
\* left, and has in row 0 and in column 0 only tiles whose North edge and
\* West edge are on no other tile.
C11_AssembledFits ==
    /\ (puzzle.outcome = "panic" \/ puzzle_log.reorients > 7)
          => ~EdgeIdsUnique(GivenTiles)
    /\ (puzzle.outcome = "done" /\ EdgeIdsUnique(GivenTiles))
          => Assembled(GivenTiles, puzzle.grid, puzzle.sorted.puzzle_len)

\* AssembledPuzzle::new has returned the grid of a puzzle with unique edge
\* IDs, after a call of assemble_tile that reoriented its tile 7 times and
\* with the first corner tile in another orientation than it was given in.
C11_Witness ==
    /\ puzzle.outcome = "done"
    /\ EdgeIdsUnique(GivenTiles)
    /\ puzzle_log.most = 7
    /\ puzzle.grid[1][1].grid # GivenTiles[puzzle.grid[1][1].id].grid
    /\ puzzle.grid[2][2].grid # GivenTiles[puzzle.grid[2][2].id].grid

(***************************************************************************)
(* day20.rs: AssembledImage.  An AssembledImage is a Tile with ID 0 that    *)
(* holds the stitched canvas.                                               *)
(***************************************************************************)

ImageLen == 20

SEAMONSTER_COORDS ==
    { <<1, 0>>, <<2, 1>>, <<2, 4>>, <<1, 5>>, <<1, 6>>, <<2, 7>>, <<2, 10>>,
      <<1, 11>>, <<1, 12>>, <<2, 13>>, <<2, 16>>, <<1, 17>>, <<1, 18>>,
      <<0, 18>>, <<1, 19>> }

seamonster_at(img, i, j) ==
    IF i + 2 >= img.len THEN FALSE
    ELSE IF j + 19 >= img.len THEN FALSE
    ELSE \A d \in SEAMONSTER_COORDS : img.grid[i + d[1]][j + d[2]]

count_seamonsters(img) ==
    Cardinality({ ij \in (0..(img.len - 1)) \X (0..(img.len - 1)) :
                    seamonster_at(img, ij[1], ij[2]) })

\* The canvas with the pixels of sea monsters at the positions in upright,
\* the pixels of sea monsters turned upside down (row di of the pattern
\* drawn as row 2 - di) at the positions in flipped, and the pixels in
\* others.
Canvas(len, upright, flipped, others) ==
    [a \in 0..(len - 1) |-> [b \in 0..(len - 1) |->
        \/ \E m \in upright : <<a - m[1], b - m[2]>> \in SEAMONSTER_COORDS
        \/ \E m \in flipped :
              <<2 - (a - m[1]), b - m[2]>> \in SEAMONSTER_COORDS
        \/ <<a, b>> \in others]]

\* The images find_seamonster_orientation is called with: no sea monster,
\* one, two, one in the last three rows, one among other pixels, and one
\* upright together with one upside down.
Canvases ==
    { Canvas(ImageLen, {}, {}, {<<3, 3>>, <<4, 7>>}),
      Canvas(ImageLen, {<<0, 0>>}, {}, {}),
      Canvas(ImageLen, {<<2, 0>>, <<9, 0>>}, {}, {}),
      Canvas(ImageLen, {<<ImageLen - 3, 0>>}, {}, {}),
      Canvas(ImageLen, {<<5, 0>>}, {}, {<<0, 0>>, <<6, 2>>, <<12, 9>>}),
      Canvas(ImageLen, {<<1, 0>>}, {<<11, 0>>}, {}) }

\* AssembledImage::new returns Self(Tile::new(0, canvas)); the canvas is
\* one of Canvases in the orientation that 0..MaxTurns reorient calls lead
\* to.
InitImage ==
    /\ OthersIdle("image")
    /\ \E canvas \in Canvases : \E turns \in 0..MaxTurns :
          /\ image = [tile |-> Tile_new(0,
                                   Reoriented(Tile_new(0, canvas), turns).grid),
                      pc |-> "while", seamonsters |-> 0, k |-> 0]
          /\ image_log = [found |-> <<>>, reorients |-> 0]

\* One evaluation of the condition of the while loop: with no sea monster
\* the image is reoriented, otherwise the count is kept in seamonsters and
\* the image is reoriented once before the for loop.
FindWhile ==
    /\ image.pc = "while"
    /\ IF count_seamonsters(image.tile) = 0
       THEN /\ image_log.reorients < MaxReorients
            /\ image' = [image EXCEPT !.tile = Tile_reorient(@)]
            /\ image_log' = [image_log EXCEPT !.reorients = @ + 1]
       ELSE /\ image' = [image EXCEPT
                            !.seamonsters = count_seamonsters(image.tile),
                            !.tile = Tile_reorient(@),
                            !.pc = "for"]
            /\ image_log' = [image_log EXCEPT !.found = <<image.tile.grid>>]
    /\ OthersUnchanged("image")

\* One pass of the for loop: the assertion, then reorient.
FindFor ==
    /\ image.pc = "for"
    /\ image.k < 7
    /\ IF count_seamonsters(image.tile) # 0
       THEN image' = [image EXCEPT !.pc = "panic"]
       ELSE image' = [image EXCEPT !.tile = Tile_reorient(@), !.k = @ + 1]
    /\ UNCHANGED image_log
    /\ OthersUnchanged("image")

\* The assertion after the for loop, and the return.
FindReturn ==
    /\ image.pc = "for"
    /\ image.k = 7
    /\ IF image.seamonsters # count_seamonsters(image.tile)
       THEN image' = [image EXCEPT !.pc = "panic"]
       ELSE image' = [image EXCEPT !.pc = "returned"]
    /\ UNCHANGED image_log
    /\ OthersUnchanged("image")

NextImage ==
    \/ FindWhile
    \/ FindFor
    \/ FindReturn

SpecImage == InitImage /\ [][NextImage]_vars

(***************************************************************************)
(* C12: claims about AssembledImage::find_seamonster_orientation.           *)
(***************************************************************************)

\* The orientations of the grid g that contain sea monsters.
WithSeamonsters(g) ==
    { h \in Symmetries(g, Cardinality(DOMAIN g)) :
        count_seamonsters(Tile_new(0, h)) > 0 }

\* C12: find_seamonster_orientation always returns: no assertion fails and
\* the while loop ends within the 8 orientations, that is after at most 7
\* reorients.  When it has returned, the image contains sea monsters, none
\* of its other 7 orientations does, and after the full cycle of 8 reorients
\* the image is as the while loop left it and the sea-monster count is the
\* one taken then.
C12_FindReturns ==
    /\ image.pc # "panic"
    /\ image_log.reorients <= 7
    /\ image.pc = "returned" =>
          /\ WithSeamonsters(image.tile.grid) = {image.tile.grid}
          /\ image_log.found = <<image.tile.grid>>
          /\ image.seamonsters = count_seamonsters(image.tile)

\* Exactly one of the 8 orientations of the image contains sea monsters.
OneOrientationWithSeamonsters ==
    Cardinality(WithSeamonsters(image.tile.grid)) = 1

\* The same for the images of which exactly one orientation contains sea
\* monsters.
FindReturnsGivenOneOrientation ==
    OneOrientationWithSeamonsters => C12_FindReturns

\* find_seamonster_orientation has returned after 7 reorients of the while
\* loop, with two sea monsters counted.
ReturnedAfterSevenReorients ==
    /\ image.pc = "returned"
    /\ image_log.reorients = 7
    /\ image.seamonsters = 2

(***************************************************************************)
(* C13: claims about the assertions of eval_part1 and eval_part2.           *)
(***************************************************************************)

\* C13: eval_part1 and eval_part2 return a value exactly for the well-formed
\* token sequences: a run that returned a value read a well-formed
\* sequence, a run in which an assertion failed read a sequence that is not
\* well-formed, and every run ends, as the loop reads each token once.
C13_ValueIffWellFormed ==
    /\ expr_run.outcome = "value" => WellFormed(expr.tokens)
    /\ expr_run.outcome = "panic" => ~WellFormed(expr.tokens)
    /\ expr_run.pos <= Len(expr.tokens) + 1

\* An assertion of eval_part1 has failed at the ')' of ( 2 + ), which has
\* an operator before it.
C13_Witness ==
    /\ expr_run.part = 1
    /\ expr_run.outcome = "panic"
    /\ expr_run.pos = 4
    /\ Len(expr.tokens) = 4
    /\ expr.tokens[1].kind = "LParen"
    /\ expr.tokens[2].kind = "Num"
    /\ expr.tokens[3].kind = "Op"
    /\ expr.tokens[4].kind = "RParen"

====
